---- MODULE Spec2Model ----
(***************************************************************************)
(* Stonekeep save game editor (src/stonekeep.py).                          *)
(*                                                                         *)
(* The state is the file system entry of the save file, the call stack of  *)
(* the recursive menus (main_menu, edit_menu), the game_character objects  *)
(* they share, and the single activation of binary_write with its file     *)
(* handle.  Four specifications are given:                                 *)
(*   Spec        the interactive session started by main();                *)
(*   SpecShared  the session on a save file the game may save again;       *)
(*   SpecLookup  edit_menu's lookup-and-write step entered with an         *)
(*               arbitrary game_character;                                 *)
(*   SpecPatch   binary_write called with arbitrary arguments.             *)
(***************************************************************************)
EXTENDS Integers, Sequences, FiniteSets, TLC

VARIABLES
    fs,         \* path -> [exists, data, writable]: the files on disk
    fs0,        \* the file system when the program started (history)
    pre,        \* the file system when binary_write was last called (history)
    file_path,  \* the path the session was started with
    stack,      \* frames of main_menu / edit_menu, innermost last
    heap,       \* the game_character objects, in order of creation
    bw,         \* the activation record of binary_write
    handles,    \* paths that have an open file handle
    console,    \* the last line binary_write wrote to the terminal
    status,     \* "running", "exited" (SystemExit) or "crashed" (uncaught)
    exit_code,  \* <<n>> once the process has ended with status n
    uncaught,   \* the exception that ended the process, if any
    last,       \* the menu and the line of the input read last (history)
    prev,       \* outcome and return value of the previous binary_write (history)
    latest      \* <<path, offset, value>> of the patches that succeeded, the
                \* most recent one for each offset (history)

vars == <<fs, fs0, pre, file_path, stack, heap, bw, handles, console,
          status, exit_code, uncaught, last, prev, latest>>

----------------------------------------------------------------------------
(* Bounds of the model *)

\* longest file of the patch-engine specification
MaxLen == 2
\* deepest nesting of menu invocations explored
MaxDepth == 5

----------------------------------------------------------------------------
(* Enums and tables *)

None == "None"

character_name == {"Drake", "Farley"}

attributes == {"health", "agility"}

ATTRIBUTE_VALUES == [a \in attributes |-> IF a = "health" THEN 255 ELSE 10]

OFFSETS ==
    [c \in character_name |->
        IF c = "Drake"
        THEN [a \in {"health", "agility"} |-> IF a = "health" THEN 340 ELSE 99999]
        ELSE [a \in {"health"} |-> 99999]]

\* game_character(): both fields default to None
game_character == [name |-> None, attributes |-> None]

----------------------------------------------------------------------------
(* Files *)

NoFile == [exists |-> FALSE, data |-> <<>>, writable |-> FALSE]

NoExc == [type |-> "none", msg |-> ""]

Paths == {"STONE.SAV"}

\* a file written at or past its end grows, the gap is filled with zeros
Zeros(n) == [i \in 1..n |-> 0]

WriteByteTruncating(data, pos, byte) ==
    IF pos < Len(data)
    THEN SubSeq(data, 1, pos) \o <<byte>>
    ELSE data \o Zeros(pos - Len(data)) \o <<byte>>

WriteByte(data, pos, byte) ==
    IF pos < Len(data)
    THEN [data EXCEPT ![pos + 1] = byte]
    ELSE data \o Zeros(pos - Len(data)) \o <<byte>>

\* bytes([value]): one byte, only for values in range(256)
ByteOkNonNegative(value) == value >= 0

ByteOk(value) == value >= 0 /\ value < 256

\* open(file_path, "rb+"): the file must exist and be writable; it is neither
\* created nor truncated
OpenCreating(fsys, path) ==
    IF ~fsys[path].exists
    THEN [exc |-> NoExc,
          fsys |-> [fsys EXCEPT ![path] = [exists |-> TRUE, data |-> <<>>, writable |-> TRUE]]]
    ELSE IF ~fsys[path].writable
    THEN [exc |-> [type |-> "PermissionError", msg |-> path], fsys |-> fsys]
    ELSE [exc |-> NoExc, fsys |-> fsys]

OpenTruncating(fsys, path) ==
    [exc |-> NoExc,
     fsys |-> [fsys EXCEPT ![path] = [exists |-> TRUE, data |-> <<>>, writable |-> TRUE]]]

OpenFile(fsys, path) ==
    IF ~fsys[path].exists
    THEN [exc |-> [type |-> "FileNotFoundError", msg |-> path], fsys |-> fsys]
    ELSE IF ~fsys[path].writable
    THEN [exc |-> [type |-> "PermissionError", msg |-> path], fsys |-> fsys]
    ELSE [exc |-> NoExc, fsys |-> fsys]

\* the position of the end of the file, as seek(0, 2) and tell() give it
FileSizeAtStart(fsys, path) == Len(fs0[path].data)

FileSize(fsys, path) == Len(fsys[path].data)

\* leaving the with block closes the handle, on return and on exception
WithExitLeak(hs, path) == hs

WithExit(hs, path) == hs \ {path}

----------------------------------------------------------------------------
(* binary_write *)

MsgNegative == "Offset must be non-negitive"
MsgRange    == "Value must no exceed max value"
MsgBeyond   == "is beyound end of file"
MsgByte     == "bytes must be in range(0, 256)"

ValueError(m) == [type |-> "ValueError", msg |-> m]

\* lines 123-126: the two checks made before the file is opened
ValidateValueFirst(value, max_value, offset) ==
    IF ~(0 <= value /\ value <= max_value) THEN ValueError(MsgRange)
    ELSE IF offset < 0 THEN ValueError(MsgNegative)
    ELSE NoExc

ValidateNoLowerBound(value, max_value, offset) ==
    IF offset < 0 THEN ValueError(MsgNegative)
    ELSE IF ~(value <= max_value) THEN ValueError(MsgRange)
    ELSE NoExc

Validate(value, max_value, offset) ==
    IF offset < 0 THEN ValueError(MsgNegative)
    ELSE IF ~(0 <= value /\ value <= max_value) THEN ValueError(MsgRange)
    ELSE NoExc

\* line 133
BeyondFileOffByOne(offset, file_size) == offset > file_size

BeyondFile(offset, file_size) == offset >= file_size

\* the except clauses, in order; FileNotFoundError and PermissionError are
\* subclasses of OSError
IsInstance(type, cls) ==
    \/ type = cls
    \/ cls = "OSError" /\ type \in {"FileNotFoundError", "PermissionError"}

CaughtFileNotFoundOnly(exc) == IsInstance(exc.type, "FileNotFoundError")

Caught(exc) ==
    \/ IsInstance(exc.type, "FileNotFoundError")
    \/ IsInstance(exc.type, "ValueError")
    \/ IsInstance(exc.type, "OSError")

Handler(exc, path) ==
    IF IsInstance(exc.type, "FileNotFoundError")
    THEN [prefix |-> "File not found", msg |-> <<path>>]
    ELSE IF IsInstance(exc.type, "ValueError")
    THEN [prefix |-> "Value Error", msg |-> <<exc.msg>>]
    ELSE [prefix |-> "OS Error", msg |-> <<exc.msg>>]

IdleBw ==
    [pc |-> "idle", value |-> 0, max_value |-> 0, offset |-> 0,
     file_path |-> "", file_size |-> 0, pos |-> 0, buf |-> <<>>,
     exc |-> NoExc, ret |-> None]

\* the activation at entry
CallBw(value, max_value, offset, path) ==
    [IdleBw EXCEPT !.pc = "validate", !.value = value, !.max_value = max_value,
                   !.offset = offset, !.file_path = path]

NoPrev == [set |-> FALSE, exc |-> NoExc, ret |-> None]

\* what the caller of binary_write has in hand once the call has returned
Returned == [set |-> TRUE, exc |-> bw.exc, ret |-> bw.ret]

\* the patches that succeeded, with the one that has just returned
Recorded ==
    IF bw.exc = NoExc
    THEN {t \in latest : ~(t[1] = bw.file_path /\ t[2] = bw.offset)}
            \cup {<<bw.file_path, bw.offset, bw.value>>}
    ELSE latest

NoInput == [menu |-> "", raw |-> <<>>]

NoConsole == [prefix |-> "", msg |-> <<>>]

\* a raise inside the try block goes to the except clauses
RaiseRetry(exc) == [bw EXCEPT !.pc = "validate", !.exc = exc]

Raise(exc) == [bw EXCEPT !.pc = "except", !.exc = exc]

\* lines 123-126
BwValidate ==
    /\ bw.pc = "validate"
    /\ LET e == Validate(bw.value, bw.max_value, bw.offset)
       IN  bw' = IF e = NoExc THEN [bw EXCEPT !.pc = "open"] ELSE Raise(e)
    /\ UNCHANGED <<fs, fs0, pre, file_path, stack, heap, handles, console,
                   status, exit_code, uncaught, last, prev, latest>>

\* line 128
BwOpen ==
    /\ bw.pc = "open"
    /\ LET r == OpenFile(fs, bw.file_path)
       IN  /\ fs' = r.fsys
           /\ IF r.exc = NoExc
              THEN /\ handles' = handles \cup {bw.file_path}
                   /\ bw' = [bw EXCEPT !.pc = "size"]
              ELSE /\ handles' = handles
                   /\ bw' = Raise(r.exc)
    /\ UNCHANGED <<fs0, pre, file_path, stack, heap, console,
                   status, exit_code, uncaught, last, prev, latest>>

\* lines 130-131: f.seek(0, 2); file_size = f.tell()
BwSize ==
    /\ bw.pc = "size"
    /\ LET size == FileSize(fs, bw.file_path)
       IN  bw' = [bw EXCEPT !.pc = "bounds", !.pos = size, !.file_size = size]
    /\ UNCHANGED <<fs, fs0, pre, file_path, stack, heap, handles, console,
                   status, exit_code, uncaught, last, prev, latest>>

\* lines 133-134: the raise leaves the with block
BwBounds ==
    /\ bw.pc = "bounds"
    /\ IF BeyondFile(bw.offset, bw.file_size)
       THEN /\ bw' = Raise(ValueError(MsgBeyond))
            /\ handles' = WithExit(handles, bw.file_path)
       ELSE /\ bw' = [bw EXCEPT !.pc = "seek"]
            /\ handles' = handles
    /\ UNCHANGED <<fs, fs0, pre, file_path, stack, heap, console,
                   status, exit_code, uncaught, last, prev, latest>>

\* line 137
BwSeek ==
    /\ bw.pc = "seek"
    /\ bw' = [bw EXCEPT !.pc = "write", !.pos = bw.offset]
    /\ UNCHANGED <<fs, fs0, pre, file_path, stack, heap, handles, console,
                   status, exit_code, uncaught, last, prev, latest>>

\* line 138: the byte goes to the handle's buffer
BwWrite ==
    /\ bw.pc = "write"
    /\ IF ByteOk(bw.value)
       THEN /\ bw' = [bw EXCEPT !.pc = "close", !.buf = <<bw.pos, bw.value>>]
            /\ handles' = handles
       ELSE /\ bw' = Raise(ValueError(MsgByte))
            /\ handles' = WithExit(handles, bw.file_path)
    /\ UNCHANGED <<fs, fs0, pre, file_path, stack, heap, console,
                   status, exit_code, uncaught, last, prev, latest>>

\* line 139: close flushes the buffer to the file; the flush can fail, the
\* handle is closed either way
BwClose ==
    /\ bw.pc = "close"
    /\ handles' = handles \ {bw.file_path}
    /\ \E flushed \in BOOLEAN :
          IF flushed
          THEN /\ fs' = [fs EXCEPT ![bw.file_path].data =
                            WriteByte(@, bw.buf[1], bw.buf[2])]
               /\ bw' = [bw EXCEPT !.pc = "report", !.buf = <<>>]
          ELSE /\ fs' = fs
               /\ bw' = [Raise([type |-> "OSError", msg |-> "flush"])
                            EXCEPT !.buf = <<>>]
    /\ UNCHANGED <<fs0, pre, file_path, stack, heap, console,
                   status, exit_code, uncaught, last, prev, latest>>

\* line 140, then the end of the with block and of the function
BwReport ==
    /\ bw.pc = "report"
    /\ console' = [prefix |-> "Wrote value", msg |-> <<bw.value, bw.offset>>]
    /\ handles' = WithExit(handles, bw.file_path)
    /\ bw' = [bw EXCEPT !.pc = "done", !.ret = None]
    /\ UNCHANGED <<fs, fs0, pre, file_path, stack, heap,
                   status, exit_code, uncaught, last, prev, latest>>

\* lines 142-147: an exception one of the clauses matches is reported and
\* the function returns; any other would leave the function and, caught by
\* no caller, end the process
BwExcept ==
    /\ bw.pc = "except"
    /\ IF Caught(bw.exc)
       THEN /\ console' = Handler(bw.exc, bw.file_path)
            /\ bw' = [bw EXCEPT !.pc = "done", !.ret = None]
            /\ UNCHANGED <<stack, status, exit_code, uncaught>>
       ELSE /\ stack' = <<>>
            /\ status' = "crashed"
            /\ exit_code' = <<1>>
            /\ uncaught' = bw.exc
            /\ bw' = IdleBw
            /\ console' = console
    /\ UNCHANGED <<fs, fs0, pre, file_path, heap, handles, last, prev, latest>>

----------------------------------------------------------------------------
(* The patch engine on its own: binary_write called with any arguments *)

FillBytes == {0, 7}

SeqsUpTo(S, n) == UNION {[1..k -> S] : k \in 0..n}

PatchFiles ==
    {[exists |-> TRUE, data |-> d, writable |-> w] : d \in SeqsUpTo(FillBytes, MaxLen), w \in BOOLEAN}

PatchOffsets == -1 .. (MaxLen + 1)

PatchValues == {-1, 0, 10, 255, 256}

PatchMaxValues == {9, 255, 300}

InitPatch ==
    /\ fs \in [Paths -> PatchFiles \cup {NoFile}]
    /\ fs0 = fs
    /\ pre = fs
    /\ file_path \in Paths
    /\ stack = <<>>
    /\ heap = <<>>
    /\ bw = IdleBw
    /\ handles = {}
    /\ console = NoConsole
    /\ status = "running"
    /\ exit_code = <<>>
    /\ uncaught = NoExc
    /\ last = NoInput
    /\ prev = NoPrev
    /\ latest = {}

PatchCall ==
    /\ status = "running"
    /\ stack = <<>>
    /\ bw.pc = "idle"
    /\ \E value \in PatchValues, max_value \in PatchMaxValues,
          offset \in PatchOffsets, path \in Paths :
          bw' = CallBw(value, max_value, offset, path)
    /\ pre' = fs
    /\ console' = NoConsole
    /\ UNCHANGED <<fs, fs0, file_path, stack, heap, handles,
                   status, exit_code, uncaught, last, prev, latest>>

PatchReturn ==
    /\ stack = <<>>
    /\ bw.pc = "done"
    /\ bw' = IdleBw
    /\ prev' = Returned
    /\ latest' = Recorded
    /\ UNCHANGED <<fs, fs0, pre, file_path, stack, heap, handles, console,
                   status, exit_code, uncaught, last>>

NextPatch ==
    \/ PatchCall
    \/ BwValidate \/ BwOpen \/ BwSize \/ BwBounds \/ BwSeek
    \/ BwWrite \/ BwClose \/ BwReport \/ BwExcept
    \/ PatchReturn

SpecPatch == InitPatch /\ [][NextPatch]_vars

----------------------------------------------------------------------------
(* Properties of the patch engine (SpecPatch) *)

Done == bw.pc = "done"

\* the file binary_write was called on, before and after
Before == pre[bw.file_path]
After  == fs[bw.file_path]

\* the error kinds of the design, by the raise that signals them
InvalidOffset    == ValueError(MsgNegative)
ValueOutOfRange  == ValueError(MsgRange)
OffsetBeyondFile == ValueError(MsgBeyond)

\* the call ended in the handler of exception e and reported it
FailsWith(e) ==
    /\ bw.exc = e
    /\ console = [prefix |-> "Value Error", msg |-> <<e.msg>>]

FailsWithFileNotFound ==
    /\ bw.exc.type = "FileNotFoundError"
    /\ console = [prefix |-> "File not found", msg |-> <<bw.file_path>>]

ValueInRange == 0 <= bw.value /\ bw.value <= bw.max_value

OffsetInFile == 0 <= bw.offset /\ bw.offset < Len(Before.data)

\* data with the byte at offset (counted from 0) replaced
Patched(data, offset, value) ==
    [i \in 1..Len(data) |-> IF i = offset + 1 THEN value ELSE data[i]]

\* C1 as stated: for every (existing, writable) file and every
\* (offset, value, max_value) with 0 <= value <= max_value and
\* 0 <= offset < file_size, after a call that meets no I/O error the byte at
\* offset is value and every other byte is as before.
C1_AnyValueWritten ==
    (Done /\ Before.exists /\ Before.writable /\ ValueInRange
          /\ OffsetInFile /\ bw.exc.type # "OSError")
        => After.data = Patched(Before.data, bw.offset, bw.value)

\* C1 amended: on an existing writable file, with 0 <= value <= max_value,
\* value <= 255 and 0 <= offset < file_size, a call that meets no I/O error
\* leaves the byte at offset equal to value and every other byte as before.
C1_ByteWritten ==
    (Done /\ Before.exists /\ Before.writable /\ ValueInRange
          /\ bw.value <= 255 /\ OffsetInFile /\ bw.exc.type # "OSError")
        => /\ After.data = Patched(Before.data, bw.offset, bw.value)
           /\ After.exists /\ After.writable = Before.writable
           /\ bw.exc = NoExc

C1_Witness ==
    /\ Done /\ Before.exists /\ Before.writable /\ ValueInRange /\ OffsetInFile
    /\ bw.exc = NoExc
    /\ bw.offset = Len(Before.data) - 1
    /\ bw.offset > 0
    /\ bw.value = 10
    /\ After.data # Before.data

\* C2 as stated: on an (existing, writable) file every offset at or beyond
\* the file size fails with OffsetBeyondFile and the file is unchanged,
\* whatever the other arguments.
C2_AnyArgsBeyond ==
    (Done /\ Before.exists /\ Before.writable
          /\ bw.offset >= Len(Before.data))
        => FailsWith(OffsetBeyondFile) /\ fs = pre

\* C2 amended: on an existing writable file and with 0 <= value <= max_value,
\* every offset at or beyond the file size (offset = file_size included)
\* fails with OffsetBeyondFile; the file is unchanged and not extended.
C2_BeyondFile ==
    (Done /\ Before.exists /\ Before.writable /\ ValueInRange
          /\ bw.offset >= Len(Before.data))
        => FailsWith(OffsetBeyondFile) /\ fs = pre

C2_Witness ==
    /\ Done /\ Before.exists /\ Before.writable /\ ValueInRange
    /\ Len(Before.data) > 0
    /\ bw.offset = Len(Before.data)
    /\ bw.exc = OffsetBeyondFile

\* C3 as stated: every value with value > max_value or value < 0 fails with
\* ValueOutOfRange and the file is unchanged.
C3_AnyOffsetRange ==
    (Done /\ ~ValueInRange) => FailsWith(ValueOutOfRange) /\ fs = pre

\* C3 amended: with offset >= 0, every value with value > max_value or
\* value < 0 fails with ValueOutOfRange and the file is unchanged.
C3_ValueOutOfRange ==
    (Done /\ bw.offset >= 0 /\ ~ValueInRange)
        => FailsWith(ValueOutOfRange) /\ fs = pre

C3_Witness ==
    /\ Done /\ bw.offset >= 0 /\ bw.value < 0
    /\ Before.exists /\ Before.writable /\ OffsetInFile
    /\ bw.exc = ValueOutOfRange

\* C4: every offset < 0 fails with InvalidOffset and the file is unchanged.
C4_InvalidOffset ==
    (Done /\ bw.offset < 0) => FailsWith(InvalidOffset) /\ fs = pre

C4_Witness ==
    /\ Done /\ bw.offset < 0 /\ ~ValueInRange
    /\ Before.exists
    /\ bw.exc = InvalidOffset

\* C5 as stated: a path that does not exist fails with FileNotFound, nothing
\* is written and no file is created.
C5_AnyArgsMissing ==
    (Done /\ ~Before.exists)
        => FailsWithFileNotFound /\ fs = pre /\ ~After.exists

\* C5 amended: with offset >= 0 and 0 <= value <= max_value, a path that does
\* not exist fails with FileNotFound, nothing is written and the path still
\* does not exist after the call.
C5_FileNotFound ==
    (Done /\ ~Before.exists /\ bw.offset >= 0 /\ ValueInRange)
        => FailsWithFileNotFound /\ fs = pre /\ ~After.exists

C5_Witness ==
    /\ Done /\ ~Before.exists /\ bw.offset >= 0 /\ ValueInRange
    /\ bw.exc.type = "FileNotFoundError"

\* offsets at which two byte sequences of one length differ
Differ(a, b) == {i \in 1..Len(a) : a[i] # b[i]}

\* C6: through any sequence of calls the file keeps the length (and the
\* existence) it had before the first call, and one call changes at most one
\* byte.
C6_SizeInvariant ==
    \A p \in Paths :
        /\ fs[p].exists = fs0[p].exists
        /\ Len(fs[p].data) = Len(fs0[p].data)
        /\ Len(fs[p].data) = Len(pre[p].data)
        /\ Cardinality(Differ(fs[p].data, pre[p].data)) <= 1

\* two successful calls at two offsets and a failed one after them
C6_Witness ==
    /\ Done /\ bw.exc = OffsetBeyondFile
    /\ prev.set /\ prev.exc = NoExc
    /\ \A p \in Paths : Cardinality(Differ(fs[p].data, fs0[p].data)) >= 2

\* C8 as stated: every failure is handed to the caller as a result that
\* tells it from success and from the other failures: two calls that ended
\* differently returned different values.
C8_TypedResult ==
    (Done /\ prev.set /\ prev.exc # bw.exc) => prev.ret # bw.ret

\* C9: a handle is open only between the open and the return of one call;
\* once the body is left, by return or by exception, none is open.
C9_HandleScoped ==
    /\ handles \subseteq {bw.file_path}
    /\ handles # {} => bw.pc \in {"size", "bounds", "seek", "write", "close"}

\* a failure between open and write has been handled
C9_Witness ==
    /\ Done /\ bw.exc = ValueError(MsgByte)
    /\ prev.set /\ prev.exc = OffsetBeyondFile
    /\ handles = {}

\* C13: the checks run in the order offset >= 0, 0 <= value <= max_value,
\* open, offset < file_size.  With a negative offset or a value out of range
\* the file is never opened, and of several failing conditions the earliest
\* is the one reported.
C13_ValidationOrder ==
    /\ (bw.pc # "idle" /\ (bw.offset < 0 \/ ~ValueInRange))
          => bw.pc \in {"validate", "except", "done"} /\ handles = {}
    /\ Done =>
          /\ bw.offset < 0 => FailsWith(InvalidOffset)
          /\ (bw.offset >= 0 /\ ~ValueInRange) => FailsWith(ValueOutOfRange)
          /\ (bw.offset >= 0 /\ ValueInRange /\ ~Before.exists)
                => FailsWithFileNotFound
          /\ (bw.offset >= 0 /\ ValueInRange /\ Before.exists
                /\ Before.writable /\ bw.offset >= Len(Before.data))
                => FailsWith(OffsetBeyondFile)

\* a negative offset, a value out of range and a missing file at once
C13_Witness ==
    /\ Done /\ bw.offset < 0 /\ bw.value > bw.max_value /\ ~Before.exists
    /\ bw.exc = InvalidOffset
    /\ prev.set /\ prev.exc = ValueOutOfRange

\* C19: with max_value above 255 and 256 <= value <= max_value, on an
\* existing writable file and 0 <= offset < file_size, nothing is written:
\* bytes([value]) raises before the write, the ValueError handler reports it
\* and the file is unchanged.
C19_ByteConversionFails ==
    (Done /\ Before.exists /\ Before.writable /\ OffsetInFile
          /\ bw.max_value > 255 /\ 256 <= bw.value /\ bw.value <= bw.max_value)
        => /\ bw.exc = ValueError(MsgByte)
           /\ console = [prefix |-> "Value Error", msg |-> <<MsgByte>>]
           /\ fs = pre
           /\ handles = {}

C19_Witness ==
    /\ Done /\ Before.exists /\ Before.writable /\ OffsetInFile
    /\ bw.max_value = 300 /\ bw.value = 256
    /\ bw.offset = Len(Before.data) - 1
    /\ bw.exc = ValueError(MsgByte)
    /\ fs = pre

\* the patches on file p among a set of <<path, offset, value>>
On(p, lt) == {t \in lt : t[1] = p}

\* the original bytes of file p with each of the patches lt in place
Overlay(p, lt) ==
    [i \in 1..Len(fs0[p].data) |->
        IF \E t \in On(p, lt) : t[2] = i - 1
        THEN (CHOOSE t \in On(p, lt) : t[2] = i - 1)[3]
        ELSE fs0[p].data[i]]

\* C18: after any sequence of calls each byte of the file is the value of
\* the most recent successful patch at its offset, or the original byte where
\* no patch succeeded; a failed call leaves the file as it found it.  So a
\* successful patch made again changes nothing, and the file does not
\* depend on the order of successful patches at different offsets.
C18_LastPatchWins ==
    /\ \A t, u \in latest : (t[1] = u[1] /\ t[2] = u[2]) => t = u
    /\ \A p \in Paths :
          /\ bw.pc \notin {"report", "done"} => fs[p].data = Overlay(p, latest)
          /\ Done => fs[p].data = Overlay(p, Recorded)
    /\ (Done /\ bw.exc # NoExc) => fs = pre /\ Recorded = latest
    /\ (Done /\ bw.exc = NoExc /\ <<bw.file_path, bw.offset, bw.value>> \in latest)
          => fs = pre

\* a patch has replaced an earlier one at its offset, a patch at the other
\* offset stands, and the call before this one failed
C18_Witness ==
    /\ Done /\ bw.exc = NoExc
    /\ \E t \in latest :
          t[1] = bw.file_path /\ t[2] = bw.offset /\ t[3] # bw.value
    /\ \E u \in latest :
          /\ u[1] = bw.file_path /\ u[2] # bw.offset
          /\ fs0[u[1]].data[u[2] + 1] # u[3]
    /\ prev.set /\ prev.exc # NoExc
    /\ After.data # Before.data

----------------------------------------------------------------------------
(* The menus *)

\* lines typed at a prompt, as sequences of characters
Lines ==
    { <<>>, <<"0">>, <<"1">>, <<"2">>, <<"3">>, <<"Q">>, <<" ">>,
      <<" ", "0">>, <<"1", " ">>, <<" ", "2", " ">>, <<"1", "0">>,
      <<"0", " ", "1">> }

Whitespace == {" "}

RECURSIVE LStrip(_)
LStrip(s) ==
    IF s # <<>> /\ Head(s) \in Whitespace THEN LStrip(Tail(s)) ELSE s

RECURSIVE RStrip(_)
RStrip(s) ==
    IF s # <<>> /\ s[Len(s)] \in Whitespace
    THEN RStrip(SubSeq(s, 1, Len(s) - 1))
    ELSE s

\* str.strip()
Strip(s) == RStrip(LStrip(s))

\* str.lower()
Lower(s) == [i \in 1..Len(s) |-> IF s[i] = "Q" THEN "q" ELSE s[i]]

\* input("> ").strip().lower()
Choice(raw) == Lower(Strip(raw))

\* the match statement of main_menu
MainMenuCaseNoExit(choice) ==
    IF choice = <<"1">> THEN "Drake"
    ELSE IF choice = <<"2">> THEN "Farley"
    ELSE "invalid"

MainMenuCaseFallThrough(choice) ==
    IF choice = <<"0">> THEN "exit"
    ELSE IF choice = <<"1">> THEN "Drake"
    ELSE IF choice = <<"2">> THEN "Farley"
    ELSE None

MainMenuCaseDefaultDrake(choice) ==
    IF choice = <<"0">> THEN "exit"
    ELSE IF choice = <<"2">> THEN "Farley"
    ELSE "Drake"

MainMenuCase(choice) ==
    IF choice = <<"0">> THEN "exit"
    ELSE IF choice = <<"1">> THEN "Drake"
    ELSE IF choice = <<"2">> THEN "Farley"
    ELSE "invalid"

\* the match statement of edit_menu
EditMenuCaseDefaultHealth(choice) ==
    IF choice = <<"0">> THEN "back" ELSE "health"

EditMenuCase(choice) ==
    IF choice = <<"0">> THEN "back"
    ELSE IF choice = <<"1">> THEN "health"
    ELSE "invalid"

Top == stack[Len(stack)]

AtMenu(fn) ==
    /\ status = "running"
    /\ stack # <<>>
    /\ Top.fn = fn
    /\ Top.pc = "input"

\* the caller waits at `at` while the callee runs
SetTop(at) == [stack EXCEPT ![Len(stack)].pc = at]

Frame(fn, c) == [fn |-> fn, pc |-> "input", character |-> c]

\* main_menu(file_path) up to its prompt: a new game_character
EnterMainMenuKeepSelection(stk, hp) ==
    [stack |-> Append(stk, Frame("main_menu", Len(hp) + 1)),
     heap  |-> Append(hp, IF hp = <<>> THEN game_character ELSE hp[Len(hp)])]

EnterMainMenu(stk, hp) ==
    [stack |-> Append(stk, Frame("main_menu", Len(hp) + 1)),
     heap  |-> Append(hp, game_character)]

\* edit_menu(character, file_path) up to its prompt
EnterEditMenuLoop(stk, c) ==
    IF stk # <<>> /\ stk[Len(stk)].fn = "edit_menu"
    THEN [stk EXCEPT ![Len(stk)].pc = "input"]
    ELSE Append(stk, Frame("edit_menu", c))

EnterEditMenu(stk, c) == Append(stk, Frame("edit_menu", c))

\* an exception no frame catches ends the process
Unwind == <<>>

\* lines 264-283
MainMenuInput ==
    /\ AtMenu("main_menu")
    /\ \E raw \in Lines :
          LET case == MainMenuCase(Choice(raw)) IN
          /\ last' = [menu |-> "main_menu", raw |-> raw]
          /\ IF case = "exit"
             THEN \* quit(0) raises SystemExit
                  /\ stack' = Unwind
                  /\ status' = "exited"
                  /\ exit_code' = <<0>>
                  /\ heap' = heap
             ELSE IF case = "invalid"
             THEN \* line 280
                  /\ Len(stack) < MaxDepth
                  /\ LET e == EnterMainMenu(SetTop("call_main"), heap)
                     IN  stack' = e.stack /\ heap' = e.heap
                  /\ UNCHANGED <<status, exit_code>>
             ELSE \* lines 273/276, then line 283
                  /\ Len(stack) < MaxDepth
                  /\ heap' = [heap EXCEPT ![Top.character].name = case]
                  /\ stack' = EnterEditMenu(SetTop("call_edit"), Top.character)
                  /\ UNCHANGED <<status, exit_code>>
    /\ UNCHANGED <<fs, fs0, pre, file_path, bw, handles, console, uncaught,
                   prev, latest>>

\* lines 207-220
EditMenuInput ==
    /\ AtMenu("edit_menu")
    /\ \E raw \in Lines :
          LET case == EditMenuCase(Choice(raw)) IN
          /\ last' = [menu |-> "edit_menu", raw |-> raw]
          /\ IF case = "back"
             THEN \* lines 213-214
                  /\ Len(stack) < MaxDepth
                  /\ LET e == EnterMainMenu(SetTop("call_main"), heap)
                     IN  stack' = e.stack /\ heap' = e.heap
             ELSE IF case = "health"
             THEN \* line 217, the match statement is left
                  /\ heap' = [heap EXCEPT ![Top.character].attributes = "health"]
                  /\ stack' = SetTop("lookup")
             ELSE \* line 220
                  /\ Len(stack) < MaxDepth
                  /\ heap' = heap
                  /\ stack' = EnterEditMenu(SetTop("call_edit"), Top.character)
    /\ UNCHANGED <<fs, fs0, pre, file_path, bw, handles, console,
                   status, exit_code, uncaught, prev, latest>>

KeyError(k) == [type |-> "KeyError", msg |-> k]

\* lines 223-224: two dictionary subscripts, each raises KeyError on a
\* missing key
LookupDrakeOnly(c) ==
    IF c.name \notin DOMAIN OFFSETS
    THEN [exc |-> KeyError(c.name), offset |-> 0, value |-> 0]
    ELSE IF c.attributes \notin DOMAIN OFFSETS["Drake"]
    THEN [exc |-> KeyError(c.attributes), offset |-> 0, value |-> 0]
    ELSE [exc |-> NoExc,
          offset |-> OFFSETS["Drake"][c.attributes],
          value |-> ATTRIBUTE_VALUES[c.attributes]]

Lookup(c) ==
    IF c.name \notin DOMAIN OFFSETS
    THEN [exc |-> KeyError(c.name), offset |-> 0, value |-> 0]
    ELSE IF c.attributes \notin DOMAIN OFFSETS[c.name]
    THEN [exc |-> KeyError(c.attributes), offset |-> 0, value |-> 0]
    ELSE IF c.attributes \notin DOMAIN ATTRIBUTE_VALUES
    THEN [exc |-> KeyError(c.attributes), offset |-> 0, value |-> 0]
    ELSE [exc |-> NoExc,
          offset |-> OFFSETS[c.name][c.attributes],
          value |-> ATTRIBUTE_VALUES[c.attributes]]

\* line 227: the ceiling passed to binary_write
MaxValue == 255

\* lines 223-227: look the selection up and call binary_write; the KeyError
\* of a missing key is caught nowhere
EditLookup ==
    /\ status = "running"
    /\ stack # <<>>
    /\ Top.fn = "edit_menu"
    /\ Top.pc = "lookup"
    /\ LET r == Lookup(heap[Top.character]) IN
       IF r.exc = NoExc
       THEN /\ bw' = CallBw(r.value, MaxValue, r.offset, file_path)
            /\ pre' = fs
            /\ stack' = SetTop("write")
            /\ UNCHANGED <<status, exit_code, uncaught>>
       ELSE /\ stack' = Unwind
            /\ status' = "crashed"
            /\ exit_code' = <<1>>
            /\ uncaught' = r.exc
            /\ UNCHANGED <<bw, pre>>
    /\ UNCHANGED <<fs, fs0, file_path, heap, handles, console, last, prev, latest>>

\* line 230: binary_write has returned, edit_menu calls itself
EditAfterWrite ==
    /\ status = "running"
    /\ stack # <<>>
    /\ Top.fn = "edit_menu"
    /\ Top.pc = "write"
    /\ bw.pc = "done"
    /\ Len(stack) < MaxDepth
    /\ bw' = IdleBw
    /\ prev' = Returned
    /\ latest' = Recorded
    /\ stack' = EnterEditMenu(SetTop("call_again"), Top.character)
    /\ UNCHANGED <<fs, fs0, pre, file_path, heap, handles, console,
                   status, exit_code, uncaught, last>>

\* the save files a session is started on
SaveImage(n) == [i \in 1..n |-> (i * 7) % 256]

SessionSizes == {0, 340, 341, 400}

SessionFiles ==
    {[exists |-> TRUE, data |-> SaveImage(n), writable |-> w] :
        n \in SessionSizes, w \in BOOLEAN}

\* main(): the path is read and main_menu is called
Init ==
    /\ fs \in [Paths -> SessionFiles \cup {NoFile}]
    /\ fs0 = fs
    /\ pre = fs
    /\ file_path \in Paths
    /\ LET e == EnterMainMenu(<<>>, <<>>)
       IN  stack = e.stack /\ heap = e.heap
    /\ bw = IdleBw
    /\ handles = {}
    /\ console = NoConsole
    /\ status = "running"
    /\ exit_code = <<>>
    /\ uncaught = NoExc
    /\ last = NoInput
    /\ prev = NoPrev
    /\ latest = {}

Next ==
    \/ MainMenuInput
    \/ EditMenuInput
    \/ EditLookup
    \/ BwValidate \/ BwOpen \/ BwSize \/ BwBounds \/ BwSeek
    \/ BwWrite \/ BwClose \/ BwReport \/ BwExcept
    \/ EditAfterWrite

Spec == Init /\ [][Next]_vars

\* edit_menu at its lookup, entered with any game_character
Selections ==
    [name : character_name \cup {None}, attributes : attributes \cup {None}]

InitLookup ==
    /\ fs \in [Paths -> SessionFiles \cup {NoFile}]
    /\ fs0 = fs
    /\ pre = fs
    /\ file_path \in Paths
    /\ \E c \in Selections :
          /\ heap = <<c>>
          /\ stack = <<[fn |-> "edit_menu", pc |-> "lookup", character |-> 1]>>
    /\ bw = IdleBw
    /\ handles = {}
    /\ console = NoConsole
    /\ status = "running"
    /\ exit_code = <<>>
    /\ uncaught = NoExc
    /\ last = NoInput
    /\ prev = NoPrev
    /\ latest = {}

SpecLookup == InitLookup /\ [][Next]_vars

\* the save file is shared with the game: between two patches the game can
\* save again, and leave a file of another length
SharedSizes == {340, 341}

SharedFiles ==
    {[exists |-> TRUE, data |-> SaveImage(n), writable |-> TRUE] : n \in SharedSizes}

FileChanged ==
    /\ status = "running"
    /\ handles = {}
    /\ bw.pc = "idle"
    /\ \E f \in SharedFiles \ {fs[file_path]} :
          fs' = [fs EXCEPT ![file_path] = f]
    /\ UNCHANGED <<fs0, pre, file_path, stack, heap, bw, handles, console,
                   status, exit_code, uncaught, last, prev, latest>>

NextShared == Next \/ FileChanged

SpecShared == Init /\ [][NextShared]_vars

----------------------------------------------------------------------------
(* Properties of the lookup (SpecLookup) *)

\* a character and an attribute of the enums with no entry in OFFSETS
AbsentPair(c) ==
    /\ c.name \in character_name
    /\ c.attributes \in attributes
    /\ c.attributes \notin DOMAIN OFFSETS[c.name]

----------------------------------------------------------------------------
(* Properties of the session (Spec) *)

\* a step that reads a line at the menu fn: every such step changes the stack
Reads(fn) == AtMenu(fn) /\ stack' # stack

NoPatchStep == fs' = fs /\ bw' = bw /\ bw.pc = "idle" /\ handles' = handles

\* the menu fn is prompted next, one invocation deeper
Redisplayed(fn) ==
    /\ AtMenu(fn)'
    /\ Len(stack') = Len(stack) + 1

\* C10 as stated: at the main menu any line other than "0", "1", "2" leads
\* to the main menu being prompted next, at the edit menu any line other
\* than "0", "1" leads to the edit menu being prompted next for the same
\* character; no patch is attempted and the file is unchanged.
C10_AnyOtherLine ==
    [][ /\ (Reads("main_menu") /\ last'.raw \notin {<<"0">>, <<"1">>, <<"2">>})
            => Redisplayed("main_menu") /\ NoPatchStep
        /\ (Reads("edit_menu") /\ last'.raw \notin {<<"0">>, <<"1">>})
            => /\ Redisplayed("edit_menu") /\ NoPatchStep
               /\ Top'.character = Top.character /\ heap' = heap ]_vars

\* C10 amended: the same, for any line that with its leading and trailing
\* whitespace stripped (and lower-cased) is other than "0", "1", "2" at the
\* main menu and other than "0", "1" at the edit menu.
C10_InvalidRedisplays ==
    [][ /\ (Reads("main_menu")
               /\ Choice(last'.raw) \notin {<<"0">>, <<"1">>, <<"2">>})
            => Redisplayed("main_menu") /\ NoPatchStep
        /\ (Reads("edit_menu") /\ Choice(last'.raw) \notin {<<"0">>, <<"1">>})
            => /\ Redisplayed("edit_menu") /\ NoPatchStep
               /\ Top'.character = Top.character /\ heap' = heap ]_vars

\* an invalid line was read at the main menu (a main_menu invoked by
\* main_menu) and one, padded with blanks, at the edit menu just now
C10_Witness ==
    /\ \E i \in 1..(Len(stack) - 1) :
          stack[i].fn = "main_menu" /\ stack[i + 1].fn = "main_menu"
    /\ last = [menu |-> "edit_menu", raw |-> <<"0", " ", "1">>]
    /\ AtMenu("edit_menu")
    /\ stack[Len(stack) - 1].fn = "edit_menu"
    /\ stack[Len(stack) - 1].pc = "call_edit"

\* C11: "0" at the edit menu calls main_menu: the main menu is prompted next
\* with a new game_character whose name and attribute are unset; the step
\* looks nothing up and calls binary_write not, whatever attribute the
\* character left behind has selected, and the edit_menu that was left waits
\* at its call of main_menu.
C11_BackToMainMenu ==
    [][ (Reads("edit_menu") /\ Choice(last'.raw) = <<"0">>)
            => /\ AtMenu("main_menu")'
               /\ Len(stack') = Len(stack) + 1
               /\ Len(heap') = Len(heap) + 1
               /\ Top'.character = Len(heap')
               /\ heap'[Top'.character].name = None
               /\ heap'[Top'.character].attributes = None
               /\ \A i \in 1..Len(heap) : heap'[i] = heap[i]
               /\ NoPatchStep
               /\ \A i \in 1..Len(stack') : stack'[i].pc \notin {"lookup", "write"}
               /\ stack'[Len(stack)] = [Top EXCEPT !.pc = "call_main"] ]_vars

\* Back was chosen for a character whose health had been patched before
C11_Witness ==
    /\ AtMenu("main_menu")
    /\ Len(stack) >= 2
    /\ stack[Len(stack) - 1].fn = "edit_menu"
    /\ stack[Len(stack) - 1].pc = "call_main"
    /\ heap[stack[Len(stack) - 1].character].attributes = "health"
    /\ heap[Top.character] = [name |-> None, attributes |-> None]
    /\ last = [menu |-> "edit_menu", raw |-> <<" ", "0">>]
    /\ prev.set

\* C12: "0" at the main menu ends the process with status 0, whatever came
\* before; once it has ended no menu is prompted, binary_write is not
\* running and no step follows.
C12_ExitStep ==
    (Reads("main_menu") /\ Choice(last'.raw) = <<"0">>)
        => /\ status' = "exited"
           /\ exit_code' = <<0>>
           /\ stack' = <<>>
           /\ NoPatchStep

C12_Exited ==
    status = "exited"
        => /\ exit_code = <<0>>
           /\ ~AtMenu("main_menu") /\ ~AtMenu("edit_menu")
           /\ bw.pc = "idle" /\ handles = {}
           /\ ~ENABLED Next

C12_ExitStatusZero == [][C12_ExitStep]_vars /\ []C12_Exited

\* exit after two menus were visited and a patch was applied
C12_Witness ==
    /\ status = "exited"
    /\ exit_code = <<0>>
    /\ prev.set /\ prev.exc = NoExc
    /\ fs # fs0
    /\ Len(heap) >= 2

\* C14: every call of binary_write made by the session carries, for the
\* character and attribute selected, offset = OFFSETS[character][attribute],
\* value = ATTRIBUTE_VALUES[attribute], max_value = 255 and the path given
\* at startup.
C14_RequestFromTables ==
    bw.pc # "idle" =>
        /\ stack # <<>> /\ Top.fn = "edit_menu" /\ Top.pc = "write"
        /\ LET c == heap[Top.character] IN
              /\ c.name \in character_name
              /\ c.attributes \in DOMAIN OFFSETS[c.name]
              /\ bw.offset = OFFSETS[c.name][c.attributes]
              /\ bw.value = ATTRIBUTE_VALUES[c.attributes]
              /\ bw.max_value = 255
              /\ bw.file_path = file_path

\* a second request of the session, for Farley
C14_Witness ==
    /\ bw.pc = "validate"
    /\ heap[Top.character].name = "Farley"
    /\ bw.offset = 99999
    /\ prev.set

\* frames of edit_menu that are at, or past, the lookup
Looking == {i \in 1..Len(stack) : stack[i].pc \in {"lookup", "write"}}

\* C17: the session requests nothing but (offset 340, value 255) for Drake
\* and (offset 99999, value 255) for Farley; agility is never selected, 10 is
\* never written, and no lookup is made with an unset character, an unset
\* attribute or a pair missing from OFFSETS, so no KeyError ends the process.
C17_OnlyHealthRequests ==
    /\ status # "crashed" /\ uncaught = NoExc
    /\ \A i \in 1..Len(heap) : heap[i].attributes \in {None, "health"}
    /\ \A i \in Looking :
          /\ heap[stack[i].character].name \in {"Drake", "Farley"}
          /\ heap[stack[i].character].attributes = "health"
    /\ bw.pc # "idle" =>
          \/ /\ heap[Top.character].name = "Drake"
             /\ bw.offset = 340 /\ bw.value = 255
          \/ /\ heap[Top.character].name = "Farley"
             /\ bw.offset = 99999 /\ bw.value = 255
    /\ \A p \in Paths :
          /\ Len(fs[p].data) = Len(fs0[p].data)
          /\ \A i \in 1..Len(fs[p].data) :
                fs[p].data[i] # fs0[p].data[i] => i = 341 /\ fs[p].data[i] = 255

\* Drake's health was patched, then Farley's was requested and refused
C17_Witness ==
    /\ bw.pc = "done"
    /\ heap[Top.character].name = "Farley"
    /\ bw.exc = OffsetBeyondFile
    /\ prev.set /\ prev.exc = NoExc
    /\ fs # fs0

\* a step that ends at a prompt it was not at before
Prompts == status' = "running" /\ stack' # stack /\ Top'.pc = "input"

\* C16: the menus loop by calling themselves.  No invocation of main_menu or
\* edit_menu returns while the process runs: every frame stays on the stack
\* and the frames below the innermost never resume, so the depth never
\* decreases; the process ends only by the exit at the main menu; and every
\* prompt after an input (invalid, Back, a character, or an attribute once
\* its patch has returned) is the prompt of a new, deeper invocation.
C16_RecursiveReentry ==
    [][ /\ status' = "running" =>
              /\ Len(stack') >= Len(stack)
              /\ \A i \in 1..Len(stack) :
                    /\ stack'[i].fn = stack[i].fn
                    /\ stack'[i].character = stack[i].character
              /\ \A i \in 1..(Len(stack) - 1) : stack'[i] = stack[i]
        /\ status' # "running" =>
              /\ status' = "exited"
              /\ AtMenu("main_menu") /\ Choice(last'.raw) = <<"0">>
        /\ Prompts => Len(stack') = Len(stack) + 1
        /\ (Reads("main_menu") /\ Choice(last'.raw) # <<"0">>) => Prompts
        /\ (Reads("edit_menu") /\ Choice(last'.raw) # <<"1">>) => Prompts
        /\ (Reads("edit_menu") /\ Choice(last'.raw) = <<"1">>)
              => Len(stack') = Len(stack) /\ Top'.pc = "lookup"
        /\ (stack # <<>> /\ Top.pc = "write" /\ stack' # stack)
              => Prompts /\ Top'.fn = "edit_menu" ]_vars

\* one input of each kind: invalid, a character, an attribute, Back
C16_Witness ==
    /\ AtMenu("main_menu")
    /\ Len(stack) = 5
    /\ stack[1] = [fn |-> "main_menu", pc |-> "call_main", character |-> 1]
    /\ stack[2] = [fn |-> "main_menu", pc |-> "call_edit", character |-> 2]
    /\ stack[3] = [fn |-> "edit_menu", pc |-> "call_again", character |-> 2]
    /\ stack[4] = [fn |-> "edit_menu", pc |-> "call_main", character |-> 2]
    /\ Top.character = 3

\* the steps of one call of binary_write, counted down to its return
Rank(pc) ==
    CASE pc = "validate" -> 9 [] pc = "open" -> 8 [] pc = "size" -> 7
      [] pc = "bounds" -> 6 [] pc = "seek" -> 5 [] pc = "write" -> 4
      [] pc = "close" -> 3 [] pc = "report" -> 2 [] pc = "except" -> 1
      [] OTHER -> 0

ExitNow ==
    MainMenuInput /\ last'.raw = <<"0">> /\ status' = "exited" /\ exit_code' = <<0>>

BackNow ==
    EditMenuInput /\ last'.raw = <<"0">> /\ AtMenu("main_menu")'

\* C20: from every state of the session the user can end it.  At the main
\* menu "0" exits; at the edit menu "0" leads to the main menu; away from a
\* menu the session is inside one patch, which runs on to its return,
\* succeeded or failed, and to the edit menu after it; no exception ends the
\* process on the way.  (Calls that would nest deeper than MaxDepth are
\* not explored.)
C20_Reachable ==
    /\ status \in {"running", "exited"}
    /\ AtMenu("main_menu") => ENABLED ExitNow
    /\ (AtMenu("edit_menu") /\ Len(stack) < MaxDepth) => ENABLED BackNow
    /\ (status = "running" /\ ~AtMenu("main_menu") /\ ~AtMenu("edit_menu"))
          => /\ stack # <<>> /\ Top.fn = "edit_menu"
             /\ \/ Top.pc = "lookup" /\ bw.pc = "idle" /\ ENABLED EditLookup
                \/ /\ Top.pc = "write" /\ bw.pc \notin {"idle", "done"}
                   /\ ENABLED (Next /\ bw' # bw)
                \/ /\ Top.pc = "write" /\ bw.pc = "done"
                   /\ Len(stack) < MaxDepth
                         => ENABLED (EditAfterWrite /\ AtMenu("edit_menu")')

C20_PatchRunsOn ==
    (bw.pc \notin {"idle", "done"} /\ bw' # bw) => Rank(bw'.pc) < Rank(bw.pc)

C20_ExitReachable == []C20_Reachable /\ [][C20_PatchRunsOn]_vars

\* the edit menu after a patch that failed, Back and exit still open
C20_Witness ==
    /\ AtMenu("edit_menu")
    /\ Len(stack) < MaxDepth
    /\ prev.set /\ prev.exc.type = "FileNotFoundError"
    /\ stack[Len(stack) - 1].pc = "call_again"
    /\ ENABLED BackNow

----------------------------------------------------------------------------
(* Properties of the session on a shared save file (SpecShared) *)

\* how far an invocation of a menu has come: it reads one line, edit_menu
\* then looks the selection up and patches once, and it ends in a call
FrameRank(pc) ==
    CASE pc = "input" -> 0 [] pc = "lookup" -> 1 [] pc = "write" -> 2
      [] OTHER -> 3

C15_State ==
    /\ \A i \in 1..Len(stack) :
          stack[i].pc \in {"lookup", "write"} => i = Len(stack)
    /\ (stack # <<>> /\ Top.pc = "lookup")
          => /\ bw.pc = "idle"
             /\ last.menu = "edit_menu"
             /\ EditMenuCase(Choice(last.raw)) = "health"
             /\ ENABLED (EditLookup /\ bw'.pc = "validate")
    /\ (stack # <<>> /\ Top.pc = "write") => bw.pc # "idle"
    /\ (stack # <<>> /\ Top.pc \notin {"lookup", "write"}) => bw.pc = "idle"
    /\ bw.pc \in {"bounds", "seek", "write", "close"}
          => bw.file_size = Len(fs[bw.file_path].data)
    /\ (bw.pc = "done" /\ Len(stack) < MaxDepth)
          => ENABLED (EditAfterWrite /\ AtMenu("edit_menu")')

C15_Step ==
    \* a patch starts at the lookup of an attribute choice, and only there
    /\ (bw.pc = "idle" /\ bw'.pc # "idle")
          => /\ stack # <<>> /\ Top.fn = "edit_menu" /\ Top.pc = "lookup"
             /\ stack' = SetTop("write")
             /\ bw'.pc = "validate"
    \* inside binary_write no step goes back to an earlier one
    /\ (bw.pc # "idle" /\ bw' # bw /\ bw'.pc # "idle")
          => Rank(bw'.pc) < Rank(bw.pc) /\ stack' = stack
    \* the bounds check uses the size of the file as it is now
    /\ (bw.pc = "bounds" /\ bw' # bw)
          => (bw'.exc = OffsetBeyondFile
                <=> bw.offset >= Len(fs[bw.file_path].data))
    \* when it has returned, failed or not, the edit menu is prompted
    /\ (bw.pc # "idle" /\ bw'.pc = "idle")
          => /\ bw.pc = "done" /\ Top.pc = "write"
             /\ status' = "running"
             /\ AtMenu("edit_menu")'
             /\ Len(stack') = Len(stack) + 1
             /\ Top'.character = Top.character
             /\ stack'[Len(stack)].pc = "call_again"
    \* an invocation of a menu never returns to its lookup: the next patch
    \* needs the next line of input
    /\ \A i \in 1..Len(stack) :
          i <= Len(stack') => FrameRank(stack'[i].pc) >= FrameRank(stack[i].pc)
    /\ (stack' # <<>> /\ stack' # stack /\ Top'.pc = "lookup")
          => /\ AtMenu("edit_menu")
             /\ last'.menu = "edit_menu"
             /\ EditMenuCase(Choice(last'.raw)) = "health"

\* C15: no error is retried.  An attribute choice at the edit menu starts
\* one call of binary_write, which runs forward to its return; after the
\* return, failed or not, the edit menu is prompted again, and the next call
\* starts only at the lookup of the next attribute choice.  Each call checks
\* the offset against the size the file has during that call.
C15_NoRetry == []C15_State /\ [][C15_Step]_vars

\* a patch that failed on a file of 340 bytes, the edit menu again, the
\* same choice again: the file has grown meanwhile and the patch succeeds
C15_Witness ==
    /\ Done /\ bw.exc = NoExc
    /\ bw.offset = 340 /\ bw.file_size = 341
    /\ Len(fs0[file_path].data) = 340
    /\ prev.set /\ prev.exc = OffsetBeyondFile
    /\ Len(stack) >= 2 /\ stack[Len(stack) - 1].pc = "call_again"
    /\ Top.pc = "write"

====
